---- MODULE Spec2Model ----
(***************************************************************************)
(* The posts API of src/index.js: an Express application over one SQLite   *)
(* table `posts` and one upload directory `uploads`.                       *)
(*                                                                         *)
(* Node runs one callback at a time, so every action below is one          *)
(* callback of the source, run to its end: the route handler (with the     *)
(* multer upload that precedes it), or the callback of a database call     *)
(* (taken together with the statement whose result it receives).  Between  *)
(* the callbacks of one request the callbacks of other requests may run.   *)
(***************************************************************************)
EXTENDS Integers, Sequences, FiniteSets, TLC

\* ---------------------------------------------------------------- bounds
MaxReq == 2      \* requests received in one run (one more in BusySpec)
MaxId == 2       \* rows the table ever holds, and the ids a request may name
MaxClock == 1    \* seconds the database clock advances

\* ------------------------------------------------------- program constants
NoFile == 0          \* image_path NULL / req.file undefined
NoResponse == 0      \* res.status(...) not called yet
Created == 201
Ok == 200
NoContent == 204
BadRequest == 400
NotFound == 404
ServerError == 500

Reqs == 1..(MaxReq + 1)
Ids == 1..MaxId

\* req.body of a multipart request: <<title, content>>; "" is a missing field
Bodies == { <<"", "c1">>, <<"t1", "">>, <<"t1", "c1">>, <<"t2", "c2">> }

VARIABLES
  posts,      \* the table: id -> [title, content, image_path, created_at]
  seq,        \* sqlite_sequence of posts: the largest id ever assigned
  uploads,    \* names of the files in the uploads directory
  now,        \* Date.now() as multer last used it to name a file
  clock,      \* CURRENT_TIMESTAMP of the database, in seconds
  req,        \* the requests: their inputs, position and response
  crashed,    \* an exception left a callback: the process is gone
  toCome      \* requests the clients have still to send

vars == <<posts, seq, uploads, now, clock, req, crashed, toCome>>

\* A request that has not arrived yet.
Idle ==
  [ kind |-> "none", id |-> 0, title |-> "", content |-> "", imagePath |-> NoFile,
    pc |-> "idle", found |-> FALSE, rowImage |-> NoFile, status |-> NoResponse,
    sent |-> 0, resImage |-> NoFile, rows |-> <<>>, solo |-> TRUE ]

\* The process has started: the table was dropped and created again.
Started ==
  /\ posts = <<>>
  /\ seq = 0
  /\ uploads = {}
  /\ now = 0
  /\ clock = 0
  /\ req = [r \in Reqs |-> Idle]
  /\ crashed = FALSE

Init == Started /\ toCome = MaxReq

InitBusy == Started /\ toCome = MaxReq + 1

\* --------------------------------------------------------------- helpers

InFlight(r) == req[r].pc \notin {"idle", "done"}

\* The next request to arrive takes the next slot.
Arrives(r) ==
  /\ ~crashed
  /\ toCome > 0
  /\ toCome' = toCome - 1
  /\ req[r].pc = "idle"
  /\ \A q \in Reqs : q < r => req[q].pc # "idle"

\* `!title || !content`
Invalid(title, content) == title = "" \/ content = ""

\* res.status(s).json(...) / res.json(...) / res.send(): a response is
\* sent; the handler returns and req.body is not used again.
Respond(rec, s) ==
  [rec EXCEPT !.pc = "done", !.status = s, !.sent = @ + 1,
              !.title = "", !.content = ""]

\* A request on `id` arrives: it and the requests on the same id already
\* in flight are no longer alone on that id.
Others(r, id) == {q \in Reqs \ {r} : InFlight(q) /\ req[q].id = id}

WithArrival(r, id, rec) ==
  [q \in Reqs |->
     IF q = r THEN [rec EXCEPT !.solo = (Others(r, id) = {})]
     ELSE IF q \in Others(r, id) THEN [req[q] EXCEPT !.solo = FALSE]
     ELSE req[q]]

\* multer.diskStorage: the file is stored under Date.now() + '-' + name;
\* the clock is taken to have advanced since the previous upload.
\* Returns <<imagePath, uploads', now'>>.
Upload(hasFile) ==
  IF hasFile THEN <<now + 1, uploads \cup {now + 1}, now + 1>>
  ELSE <<NoFile, uploads, now>>

\* Unlink with the removal left out.
Unlink_Keeps(dir, p) == dir

\* if (fs.existsSync(p)) fs.unlinkSync(p), with p = path.join(__dirname,
\* image_path): the file multer stored, the process running in the
\* directory of index.js.
Unlink(dir, p) == dir \ {p}

\* INSERT INTO posts (title, content, image_path): AUTOINCREMENT never
\* gives an id twice, created_at defaults to CURRENT_TIMESTAMP.
InsertRow(table, id, title, content, imagePath) ==
  [i \in DOMAIN table \cup {id} |->
     IF i = id
     THEN [title |-> title, content |-> content, image_path |-> imagePath,
           created_at |-> clock]
     ELSE table[i]]

\* UpdateRow with the three-column statement used for every request.
UpdateRow_SetsImage(row, title, content, imagePath) ==
  [row EXCEPT !.title = title, !.content = content, !.image_path = imagePath]

\* The UPDATE statement the handler chooses: with a new image the row's
\* image_path is set too, without one it is not part of the statement.
UpdateRow(row, title, content, imagePath) ==
  IF imagePath # NoFile
  THEN [row EXCEPT !.title = title, !.content = content, !.image_path = imagePath]
  ELSE [row EXCEPT !.title = title, !.content = content]

\* UPDATE posts SET ... WHERE id = ? : no row with that id, no change.
UpdateWhere(table, id, title, content, imagePath) ==
  [i \in DOMAIN table |->
     IF i = id THEN UpdateRow(table[i], title, content, imagePath) ELSE table[i]]

\* DELETE FROM posts WHERE id = ?
DeleteWhere(table, id) == [i \in DOMAIN table \ {id} |-> table[i]]

\* OldImageOfPut with the path of the new file taken for the old one.
OldImageOfPut_New(imagePath, rowImage) ==
  IF imagePath # NoFile /\ rowImage # NoFile THEN imagePath ELSE NoFile

\* `if (imagePath && row.image_path)`: the old file a PUT removes.
OldImageOfPut(imagePath, rowImage) ==
  IF imagePath # NoFile /\ rowImage # NoFile THEN rowImage ELSE NoFile

\* `if (row.image_path)`: the file a DELETE removes.
OldImageOfDelete(rowImage) == rowImage

\* SELECT * FROM posts WHERE id = ? : the row, or no row.
SelectById(table, id) == IF id \in DOMAIN table THEN <<table[id]>> ELSE <<>>

\* SELECT * FROM posts ORDER BY created_at DESC: every order of the rows
\* in which created_at never increases (rows of one second in any order).
ListOrders(table) ==
  { s \in [1..Cardinality(DOMAIN table) -> DOMAIN table] :
      /\ \A i, j \in DOMAIN s : i # j => s[i] # s[j]
      /\ \A i, j \in DOMAIN s :
           i < j => table[s[i]].created_at >= table[s[j]].created_at }

\* --------------------------------------------------------------- actions

\* The database clock passes a second.
Tick ==
  /\ ~crashed
  /\ clock < MaxClock
  /\ clock' = clock + 1
  /\ UNCHANGED <<posts, seq, uploads, now, req, crashed, toCome>>

\* GET /posts: the handler issues db.all.
ListArrive(r) ==
  /\ Arrives(r)
  /\ req' = [req EXCEPT ![r] = [Idle EXCEPT !.kind = "LIST", !.pc = "all"]]
  /\ UNCHANGED <<posts, seq, uploads, now, clock, crashed>>

\* The callback of db.all.
ListDone(r, dbOk) ==
  /\ ~crashed
  /\ req[r].kind = "LIST" /\ req[r].pc = "all"
  /\ IF ~dbOk
     THEN req' = [req EXCEPT ![r] = Respond(@, ServerError)]
     ELSE \E s \in ListOrders(posts) :
            req' = [req EXCEPT ![r] = Respond([@ EXCEPT !.rows = s], Ok)]
  /\ UNCHANGED <<posts, seq, uploads, now, clock, crashed, toCome>>

\* GET /posts/:id: the handler issues db.get.
GetArrive(r, id) ==
  /\ Arrives(r)
  /\ req' = WithArrival(r, id, [Idle EXCEPT !.kind = "GET", !.id = id, !.pc = "get"])
  /\ UNCHANGED <<posts, seq, uploads, now, clock, crashed>>

\* The callback of db.get.
GetDone(r, dbOk) ==
  /\ ~crashed
  /\ req[r].kind = "GET" /\ req[r].pc = "get"
  /\ req' = [req EXCEPT ![r] =
       IF ~dbOk THEN Respond(@, ServerError)
       ELSE IF SelectById(posts, req[r].id) = <<>> THEN Respond(@, NotFound)
       ELSE Respond([@ EXCEPT !.found = TRUE,
                               !.resImage = SelectById(posts, req[r].id)[1].image_path],
                    Ok)]
  /\ UNCHANGED <<posts, seq, uploads, now, clock, crashed, toCome>>

\* POST /posts: multer stores the file, then the handler validates the
\* body and issues the INSERT.
PostArrive(r, title, content, hasFile) ==
  /\ Arrives(r)
  /\ seq + Cardinality({q \in Reqs : req[q].pc = "insert"}) < MaxId
  /\ LET up == Upload(hasFile)
         rec == [Idle EXCEPT !.kind = "POST", !.title = title, !.content = content,
                             !.imagePath = up[1]]
     IN /\ uploads' = up[2]
        /\ now' = up[3]
        /\ req' = [req EXCEPT ![r] =
             IF Invalid(title, content) THEN Respond(rec, BadRequest)
             ELSE [rec EXCEPT !.pc = "insert"]]
  /\ UNCHANGED <<posts, seq, clock, crashed>>

\* The callback of the INSERT.
PostDone(r, dbOk) ==
  /\ ~crashed
  /\ req[r].kind = "POST" /\ req[r].pc = "insert"
  /\ IF ~dbOk
     THEN /\ req' = [req EXCEPT ![r] = Respond(@, ServerError)]
          /\ UNCHANGED <<posts, seq>>
     ELSE /\ seq' = seq + 1
          /\ posts' = InsertRow(posts, seq + 1, req[r].title, req[r].content,
                                req[r].imagePath)
          /\ req' = [req EXCEPT ![r] =
               Respond([@ EXCEPT !.id = seq + 1, !.resImage = req[r].imagePath],
                       Created)]
  /\ UNCHANGED <<uploads, now, clock, crashed, toCome>>

\* PUT /posts/:id: multer stores the file, then the handler validates the
\* body and issues the SELECT of the current row.
PutArrive(r, id, title, content, hasFile) ==
  /\ Arrives(r)
  /\ LET up == Upload(hasFile)
         rec == [Idle EXCEPT !.kind = "PUT", !.id = id, !.title = title,
                             !.content = content, !.imagePath = up[1]]
     IN /\ uploads' = up[2]
        /\ now' = up[3]
        /\ req' = IF Invalid(title, content)
                  THEN [req EXCEPT ![r] = Respond(rec, BadRequest)]
                  ELSE WithArrival(r, id, [rec EXCEPT !.pc = "get"])
  /\ UNCHANGED <<posts, seq, clock, crashed>>

\* The callback of the SELECT of a PUT: removes the old file when a new one
\* came with the request, then issues the UPDATE.  unlinkSync is not inside
\* a try: when it throws, the exception leaves the callback.
PutRowRead(r, dbOk, unlinkOk) ==
  /\ ~crashed
  /\ req[r].kind = "PUT" /\ req[r].pc = "get"
  /\ LET id == req[r].id
         found == SelectById(posts, id) # <<>>
         rowImage == IF found THEN SelectById(posts, id)[1].image_path ELSE NoFile
         old == OldImageOfPut(req[r].imagePath, rowImage)
         rec == [req[r] EXCEPT !.found = found, !.rowImage = rowImage]
     IN IF ~dbOk
        THEN /\ req' = [req EXCEPT ![r] = Respond(@, ServerError)]
             /\ UNCHANGED <<uploads, crashed>>
        ELSE IF ~found
        THEN /\ req' = [req EXCEPT ![r] = Respond(@, NotFound)]
             /\ UNCHANGED <<uploads, crashed>>
        ELSE IF old # NoFile /\ old \in uploads /\ ~unlinkOk
        THEN /\ req' = [req EXCEPT ![r] = [rec EXCEPT !.pc = "thrown"]]
             /\ crashed' = TRUE
             /\ UNCHANGED uploads
        ELSE /\ uploads' = IF old # NoFile THEN Unlink(uploads, old) ELSE uploads
             /\ req' = [req EXCEPT ![r] = [rec EXCEPT !.pc = "update"]]
             /\ UNCHANGED crashed
  /\ UNCHANGED <<posts, seq, now, clock, toCome>>

\* The callback of the UPDATE: `err` is the only thing it looks at.
PutDone(r, dbOk) ==
  /\ ~crashed
  /\ req[r].kind = "PUT" /\ req[r].pc = "update"
  /\ IF ~dbOk
     THEN /\ req' = [req EXCEPT ![r] = Respond(@, ServerError)]
          /\ UNCHANGED posts
     ELSE /\ posts' = UpdateWhere(posts, req[r].id, req[r].title, req[r].content,
                                  req[r].imagePath)
          /\ req' = [req EXCEPT ![r] =
               Respond([@ EXCEPT !.resImage =
                          IF req[r].imagePath # NoFile THEN req[r].imagePath
                          ELSE req[r].rowImage], Ok)]
  /\ UNCHANGED <<seq, uploads, now, clock, crashed, toCome>>

\* DELETE /posts/:id: the handler issues the SELECT of the current row.
DeleteArrive(r, id) ==
  /\ Arrives(r)
  /\ req' = WithArrival(r, id, [Idle EXCEPT !.kind = "DELETE", !.id = id, !.pc = "get"])
  /\ UNCHANGED <<posts, seq, uploads, now, clock, crashed>>

\* The callback of the SELECT of a DELETE: removes the row's file, then
\* issues the DELETE statement.  unlinkSync may throw here too.
DeleteRowRead(r, dbOk, unlinkOk) ==
  /\ ~crashed
  /\ req[r].kind = "DELETE" /\ req[r].pc = "get"
  /\ LET id == req[r].id
         found == SelectById(posts, id) # <<>>
         rowImage == IF found THEN SelectById(posts, id)[1].image_path ELSE NoFile
         old == OldImageOfDelete(rowImage)
         rec == [req[r] EXCEPT !.found = found, !.rowImage = rowImage]
     IN IF ~dbOk
        THEN /\ req' = [req EXCEPT ![r] = Respond(@, ServerError)]
             /\ UNCHANGED <<uploads, crashed>>
        ELSE IF ~found
        THEN /\ req' = [req EXCEPT ![r] = Respond(@, NotFound)]
             /\ UNCHANGED <<uploads, crashed>>
        ELSE IF old # NoFile /\ old \in uploads /\ ~unlinkOk
        THEN /\ req' = [req EXCEPT ![r] = [rec EXCEPT !.pc = "thrown"]]
             /\ crashed' = TRUE
             /\ UNCHANGED uploads
        ELSE /\ uploads' = IF old # NoFile THEN Unlink(uploads, old) ELSE uploads
             /\ req' = [req EXCEPT ![r] = [rec EXCEPT !.pc = "delete"]]
             /\ UNCHANGED crashed
  /\ UNCHANGED <<posts, seq, now, clock, toCome>>

\* The callback of the DELETE statement.
DeleteDone(r, dbOk) ==
  /\ ~crashed
  /\ req[r].kind = "DELETE" /\ req[r].pc = "delete"
  /\ IF ~dbOk
     THEN /\ req' = [req EXCEPT ![r] = Respond(@, ServerError)]
          /\ UNCHANGED posts
     ELSE /\ posts' = DeleteWhere(posts, req[r].id)
          /\ req' = [req EXCEPT ![r] = Respond(@, NoContent)]
  /\ UNCHANGED <<seq, uploads, now, clock, crashed, toCome>>

\* A callback of a request already received.
Callback ==
  \E r \in Reqs, dbOk \in BOOLEAN :
    \/ ListDone(r, dbOk)
    \/ GetDone(r, dbOk)
    \/ PostDone(r, dbOk)
    \/ \E unlinkOk \in BOOLEAN : PutRowRead(r, dbOk, unlinkOk)
    \/ PutDone(r, dbOk)
    \/ \E unlinkOk \in BOOLEAN : DeleteRowRead(r, dbOk, unlinkOk)
    \/ DeleteDone(r, dbOk)

\* A request arrives.
Arrival ==
  \E r \in Reqs :
    \/ ListArrive(r)
    \/ \E id \in Ids : GetArrive(r, id)
    \/ \E b \in Bodies, hasFile \in BOOLEAN : PostArrive(r, b[1], b[2], hasFile)
    \/ \E id \in Ids, b \in Bodies, hasFile \in BOOLEAN :
         PutArrive(r, id, b[1], b[2], hasFile)
    \/ \E id \in Ids : DeleteArrive(r, id)

Next == Tick \/ Arrival \/ Callback

Spec == Init /\ [][Next]_vars

\* The same program with one more request received.
BusySpec == InitBusy /\ [][Next]_vars

\* Every database and file call completes: a pending callback runs.
FairSpec == Init /\ [][Next]_vars /\ WF_vars(Callback)

\* ---------------------------------------------------------------- claims

\* Request r runs one of its own callbacks in this step.
Steps(r) == req'[r].pc # req[r].pc

\* Request r receives the response s in this step.
Gets(r, s) == req[r].status = NoResponse /\ req'[r].status = s

\* C1: every row a GET can read whose image_path is present references a
\* file that is in the uploads directory.
C1_ImagePathsExist ==
  \A id \in DOMAIN posts :
    posts[id].image_path # NoFile => posts[id].image_path \in uploads

\* C2: when a PUT with a new file on a post that had an image, alone on
\* that id from its arrival on, is answered 200, the old file is not in the
\* uploads directory, the new file is, and a GET of the id reads the new
\* image_path.
C2_PutReplacesImage ==
  [][\A r \in Reqs :
       ( /\ req[r].kind = "PUT" /\ Gets(r, Ok) /\ req'[r].solo
         /\ req[r].imagePath # NoFile /\ req[r].rowImage # NoFile )
       => /\ req[r].rowImage \notin uploads'
          /\ req[r].imagePath \in uploads'
          /\ SelectById(posts', req[r].id) # <<>>
          /\ SelectById(posts', req[r].id)[1].image_path = req[r].imagePath
          /\ req'[r].resImage = req[r].imagePath]_vars

\* C2 witness: such a PUT has been answered; the row holds the new path.
C2_Witness ==
  \E r \in Reqs :
    /\ req[r].kind = "PUT" /\ req[r].status = Ok /\ req[r].solo
    /\ req[r].imagePath # NoFile /\ req[r].rowImage # NoFile
    /\ req[r].id \in DOMAIN posts
    /\ posts[req[r].id].image_path = req[r].imagePath
    /\ req[r].rowImage \notin uploads

\* C3: no step of a PUT without a file changes the uploads directory, the
\* set of ids, or the image_path or created_at of any row; and when its
\* UPDATE of an existing row is answered 200 the row has the title and the
\* content of the request and a GET of the id reads the image_path the row
\* had before.
C3_PutWithoutImageKeepsImage ==
  [][\A r \in Reqs :
       (req'[r].kind = "PUT" /\ req'[r].imagePath = NoFile /\ Steps(r))
       => /\ uploads' = uploads
          /\ DOMAIN posts' = DOMAIN posts
          /\ \A id \in DOMAIN posts :
               /\ posts'[id].image_path = posts[id].image_path
               /\ posts'[id].created_at = posts[id].created_at
          /\ (Gets(r, Ok) /\ req[r].id \in DOMAIN posts)
             => /\ posts'[req[r].id].title = req[r].title
                /\ posts'[req[r].id].content = req[r].content
                /\ SelectById(posts', req[r].id)[1].image_path
                     = posts[req[r].id].image_path]_vars

\* C3 witness: a PUT without a file on a post with an image was answered
\* 200 and the row still has that image.
C3_Witness ==
  \E r \in Reqs :
    /\ req[r].kind = "PUT" /\ req[r].status = Ok /\ req[r].imagePath = NoFile
    /\ req[r].rowImage # NoFile
    /\ req[r].id \in DOMAIN posts
    /\ posts[req[r].id].image_path = req[r].rowImage
    /\ posts[req[r].id].title = "t2"
    /\ req[r].rowImage \in uploads

C5_NotFoundLeavesNoFile ==
  \A r \in Reqs :
    (req[r].kind \in {"PUT", "DELETE"} /\ req[r].status = NotFound)
    => req[r].imagePath \notin uploads

\* C6: the step in which a POST or PUT is answered 400 leaves the table and
\* the uploads directory as they were before the request.
C6_BadRequestTouchesNothing ==
  [][\A r \in Reqs :
       Gets(r, BadRequest) => (posts' = posts /\ uploads' = uploads)]_vars

\* C7: a failing removal of the old file never ends a PUT or a DELETE: no
\* request is left in the callback that removes the file, and the process
\* goes on to the row write and the response.
C7_UnlinkFailureSwallowed ==
  ~crashed /\ \A r \in Reqs : req[r].pc # "thrown"

\* C8: a PUT is answered 200 only if the row exists when its UPDATE is
\* applied.
C8_PutOkOnlyIfRowExists ==
  [][\A r \in Reqs :
       (req[r].kind = "PUT" /\ Gets(r, Ok)) => req[r].id \in DOMAIN posts]_vars

\* C9: the list a GET /posts returns has the posts created later (the
\* larger ids) before those created earlier.
C9_ListNewestFirst ==
  \A r \in Reqs :
    (req[r].kind = "LIST" /\ req[r].status = Ok)
    => \A i, j \in DOMAIN req[r].rows : i < j => req[r].rows[i] > req[r].rows[j]

\* C10: every request received is eventually answered, exactly once.
C10_EveryRequestAnswered ==
  \A r \in Reqs : (req[r].pc # "idle") ~> (req[r].sent = 1)

====
